---- MODULE Spec2Model ----
(***************************************************************************)
(* State-machine model of the commdio acoustic modem.                      *)
(*                                                                         *)
(*   - the playback gateway (transmitter.py): the accept loop, one handler *)
(*     thread per connection, the shared registry `clients`, the blocking  *)
(*     playback on the shared output device and the SIGINT handler;        *)
(*   - the capture pipelines (receiver.py / audio_streaming_example.py:    *)
(*     device callback -> bounded queue -> consumer loop; sample.py:       *)
(*     recording thread -> queue -> demodulating thread).                  *)
(*                                                                         *)
(* The two programs are separate processes: ServerSpec runs the gateway,   *)
(* CaptureSpec runs a capture pipeline.                                    *)
(***************************************************************************)
EXTENDS Integers, Sequences, FiniteSets, TLC

VARIABLES
    \* ---- transmitter.py ----
    clients,      \* the global list `clients` (sequence of sockets)
    nacc,         \* number of connections accept() has returned so far
    mainpc,       \* position of main()'s loop: "accept", "append", "start"
    mainAlive,    \* FALSE once SystemExit has unwound the main thread
    pc,           \* position of each handler thread (receive)
    closed,       \* closed[s]: client_socket.close() has been called on s
    data,         \* receive's local `data` (decoded text), NoData before a read
    fsk_signal,   \* receive's local `fsk_signal`
    playback,     \* per handler: the buffers it submitted that the device is still playing
    invoked,      \* history: calls of play_audio since the handler's last recv
    started,      \* history: playbacks started since the handler's last recv
    reads,        \* history: messages read for playback in the handler's loop
                  \*          (0, 1, 2 = two or more; 0 again once the loop is left)
    regAtInt,     \* history: the sockets in `clients` when SIGINT was delivered
    \* ---- capture pipelines ----
    pipeline,     \* which script runs: "receiver" (callback pipelines) or "sample"
    stream,       \* capture device: "idle", "active", "closed"
    audio_queue,  \* the queue between producer and consumer
    delivered,    \* number of blocks the capture device has produced
    cpc,          \* position of the consumer loop
    mpc,          \* position of the main thread
    audio_data,   \* the block the consumer is processing (0: none)
    sigint,       \* TRUE once Ctrl-C has been delivered to the process
    ev,           \* history: outcome of the latest producer/consumer step
    demod_of,     \* history: the block the demodulator was last run on (0: none)
    assembled_of, \* history: the block whose bits were last assembled (0: none)
    dropped,      \* history: the blocks the queue refused (queue.Full)
    \* ---- modem functions (modulator, demodulators, assembler, synthesizer) ----
    stage,        \* which function is applied next
    source,       \* where the input came from: "text", "bits", "air", "chunks", "synth"
    message,      \* the text handed to the encoder (NoData: none)
    binary_data,  \* receive's `binary_data`: the string handed to generate_fsk_signal
    signal,       \* a sample buffer: the modulator's output or a captured block
    threshold_factor, \* in hundredths
    demod_by,     \* which script's demodulator was applied
    received_bits,    \* the bits the demodulator produced for `signal`
    demodulated_bits, \* sample.py's bit buffer between blocks
    ascii_string, \* sample.py's accumulated text
    fed,          \* history: every bit appended to demodulated_bits, in order
    feeds,        \* history: number of blocks fed to the assembler
    tone_args,    \* the arguments of the latest generate_sine_wave call made
    tone,         \* and its result
    bit_duration_arg, \* the bit_duration handed to the demodulator
    windows       \* history: the slices [start, end) the demodulator took

svars == <<clients, nacc, mainpc, mainAlive, pc, closed, data, fsk_signal,
           playback, invoked, started, reads, regAtInt>>
cvars == <<pipeline, stream, audio_queue, delivered, cpc, mpc, audio_data,
           sigint, ev, demod_of, assembled_of, dropped>>
kvars == <<stage, source, message, binary_data, signal, threshold_factor,
           demod_by, received_bits, demodulated_bits, ascii_string, fed, feeds,
           tone_args, tone, bit_duration_arg, windows>>
vars == <<svars, cvars, kvars>>

(***************************************************************************)
(* Bounds of the model.                                                    *)
(***************************************************************************)
MaxClients == 2      \* connections the accept loop takes
MaxBlocks == 102     \* blocks the capture device produces

Sockets == 1..MaxClients

(***************************************************************************)
(* Program constants.                                                      *)
(***************************************************************************)
sample_rate == 44100
freq_high == 2000
freq_low == 1000
BitDurationDen == 1000         \* durations are counted in 1 / BitDurationDen s
bit_duration == 10             \* 0.01 s
RecvBufSize == 1024
QueueMaxSize == 100

(***************************************************************************)
(* Text and byte conversions used by receive().                            *)
(* Bytes are numbers 0..255, text is a sequence of code points.            *)
(***************************************************************************)
NoData == <<-1>>               \* `data` before the first successful read
DecodeError == <<-2>>          \* bytes.decode("utf-8") raised UnicodeDecodeError

IsCont(b) == b >= 128 /\ b <= 191

\* Number of bytes of the UTF-8 sequence that starts b[i], 0 when it is invalid.
Utf8SeqLen(b, i) ==
    LET b0 == b[i]
        n == Len(b) - i + 1
    IN  IF b0 < 128 THEN 1
        ELSE IF b0 >= 194 /\ b0 <= 223
            THEN IF n >= 2 /\ IsCont(b[i+1]) THEN 2 ELSE 0
        ELSE IF b0 >= 224 /\ b0 <= 239
            THEN IF n >= 3 /\ IsCont(b[i+1]) /\ IsCont(b[i+2])
                    /\ (b0 = 224 => b[i+1] >= 160)
                    /\ (b0 = 237 => b[i+1] <= 159)
                 THEN 3 ELSE 0
        ELSE IF b0 >= 240 /\ b0 <= 244
            THEN IF n >= 4 /\ IsCont(b[i+1]) /\ IsCont(b[i+2]) /\ IsCont(b[i+3])
                    /\ (b0 = 240 => b[i+1] >= 144)
                    /\ (b0 = 244 => b[i+1] <= 143)
                 THEN 4 ELSE 0
        ELSE 0

Utf8CodePoint(b, i, k) ==
    IF k = 1 THEN b[i]
    ELSE IF k = 2 THEN (b[i] - 192) * 64 + (b[i+1] - 128)
    ELSE IF k = 3 THEN (b[i] - 224) * 4096 + (b[i+1] - 128) * 64 + (b[i+2] - 128)
    ELSE (b[i] - 240) * 262144 + (b[i+1] - 128) * 4096
         + (b[i+2] - 128) * 64 + (b[i+3] - 128)

RECURSIVE Utf8DecodeFrom(_, _)
Utf8DecodeFrom(b, i) ==
    IF i > Len(b) THEN <<>>
    ELSE LET k == Utf8SeqLen(b, i)
         IN  IF k = 0 THEN DecodeError
             ELSE LET rest == Utf8DecodeFrom(b, i + k)
                  IN  IF rest = DecodeError THEN DecodeError
                      ELSE <<Utf8CodePoint(b, i, k)>> \o rest

\* bytes.decode("utf-8"): the text, or DecodeError
Decode(b) == Utf8DecodeFrom(b, 1)

EncodeCodePoint(c) ==
    IF c < 128 THEN <<c>>
    ELSE IF c < 2048 THEN <<192 + (c \div 64), 128 + (c % 64)>>
    ELSE IF c < 65536
        THEN <<224 + (c \div 4096), 128 + ((c \div 64) % 64), 128 + (c % 64)>>
    ELSE <<240 + (c \div 262144), 128 + ((c \div 4096) % 64),
           128 + ((c \div 64) % 64), 128 + (c % 64)>>

RECURSIVE Encode(_)
\* str.encode(): the UTF-8 bytes of a text
Encode(t) == IF t = <<>> THEN <<>> ELSE EncodeCodePoint(Head(t)) \o Encode(Tail(t))

RECURSIVE IntFromBytes(_)
\* int.from_bytes(b, 'big')
IntFromBytes(b) ==
    IF b = <<>> THEN 0
    ELSE IntFromBytes(SubSeq(b, 1, Len(b) - 1)) * 256 + b[Len(b)]

RECURSIVE BinDigits(_)
BinDigits(n) ==
    IF n < 2 THEN <<IF n = 1 THEN "1" ELSE "0">>
    ELSE BinDigits(n \div 2) \o <<IF n % 2 = 1 THEN "1" ELSE "0">>

\* bin(n) for n >= 0: the characters "0", "b" and then the binary digits
Bin(n) == <<"0", "b">> \o BinDigits(n)

(***************************************************************************)
(* Tone synthesis and modulation (transmitter.py).  A waveform is a        *)
(* sequence of bursts; a burst is a tone frequency and a sample count.     *)
(***************************************************************************)
\* int(sample_rate * duration) for duration = bit_duration
SamplesPerBit == (sample_rate * bit_duration) \div BitDurationDen

\* np.linspace(0, duration, num, endpoint=False) with num < 0 raises ValueError
ValueError == [freq |-> 0, n |-> -1]

generate_sine_wave_rounded(frequency, duration) ==
    LET num == (2 * sample_rate * duration + BitDurationDen)
                   \div (2 * BitDurationDen)
    IN  IF num < 0 THEN ValueError ELSE [freq |-> frequency, n |-> num]
\* n samples sin(2 pi frequency k / sample_rate), k = 0 .. n-1, with
\* n = int(sample_rate * duration); n = 0 is the empty buffer
generate_sine_wave(frequency, duration) ==
    LET num == (sample_rate * duration) \div BitDurationDen
    IN  IF num < 0 THEN ValueError ELSE [freq |-> frequency, n |-> num]

RECURSIVE generate_fsk_all_low(_)
generate_fsk_all_low(d) ==
    IF d = <<>> THEN <<>>
    ELSE <<generate_sine_wave(freq_low, bit_duration)>>
         \o generate_fsk_all_low(Tail(d))
RECURSIVE generate_fsk_signal(_)
generate_fsk_signal(d) ==
    IF d = <<>> THEN <<>>
    ELSE <<IF Head(d) = "1" THEN generate_sine_wave(freq_high, bit_duration)
           ELSE generate_sine_wave(freq_low, bit_duration)>>
         \o generate_fsk_signal(Tail(d))

\* lines 85-86 of receive(): the waveform transmitted for a text
MessageSignal(t) == generate_fsk_signal(Bin(IntFromBytes(Encode(t))))

(***************************************************************************)
(* The playback gateway: transmitter.py                                    *)
(***************************************************************************)
QuitText == <<113, 117, 105, 116>>        \* "quit"

\* What one recv(1024) can return: EOF, "quit", "Hi", "Quit", and a byte
\* string that is not UTF-8.
RecvInputs ==
    { b \in { <<>>, QuitText, <<72, 105>>, <<81, 117, 105, 116>>, <<255>> } :
        Len(b) <= RecvBufSize }

InList(l, x) == \E i \in 1..Len(l) : l[i] = x
Occurrences(l, x) == Cardinality({ i \in 1..Len(l) : l[i] = x })

\* clients.append(x)
ListAppend(l, x) == Append(l, x)

ListRemoveNone(l, x) == l
ListPopFirst(l, x) == Tail(l)
\* clients.remove(x): drops the first element equal to x
ListRemove(l, x) ==
    LET i == CHOOSE k \in 1..Len(l) : l[k] = x /\ \A j \in 1..(k-1) : l[j] # x
    IN  SubSeq(l, 1, i - 1) \o SubSeq(l, i + 1, Len(l))

SocketLeftOpen(c, s) == c
\* client_socket.close()
SocketClose(c, s) == [c EXCEPT ![s] = TRUE]

WaitSkipped(s) == TRUE
\* sd.wait() returns once the buffer this handler submitted has been played
WaitReturns(s) == playback[s] = <<>>

Bump(n) == IF n < 2 THEN n + 1 ELSE 2

\* lines 76-79, 89-92, 94-98 and 102: close the socket, leave the loop, close again
LeaveLoop(s) ==
    /\ closed' = SocketClose(SocketClose(closed, s), s)
    /\ pc' = [pc EXCEPT ![s] = "check"]
    /\ reads' = [reads EXCEPT ![s] = 0]

ServerInit ==
    /\ clients = <<>>
    /\ nacc = 0
    /\ mainpc = "accept"
    /\ mainAlive = TRUE
    /\ pc = [s \in Sockets |-> "none"]
    /\ closed = [s \in Sockets |-> FALSE]
    /\ data = [s \in Sockets |-> NoData]
    /\ fsk_signal = [s \in Sockets |-> <<>>]
    /\ playback = [s \in Sockets |-> <<>>]
    /\ invoked = [s \in Sockets |-> 0]
    /\ started = [s \in Sockets |-> 0]
    /\ reads = [s \in Sockets |-> 0]
    /\ regAtInt = {}

\* main, line 123: accept() returns a new connection
Accept ==
    /\ mainAlive /\ mainpc = "accept" /\ nacc < MaxClients
    /\ nacc' = nacc + 1
    /\ mainpc' = "append"
    /\ UNCHANGED <<clients, mainAlive, pc, closed, data, fsk_signal,
                   playback, invoked, started, regAtInt, reads, cvars,
                   kvars>>

\* main, line 125
RegisterClient ==
    /\ mainAlive /\ mainpc = "append"
    /\ clients' = ListAppend(clients, nacc)
    /\ mainpc' = "start"
    /\ UNCHANGED <<nacc, mainAlive, pc, closed, data, fsk_signal, playback,
                   invoked, started, regAtInt, reads, cvars, kvars>>

\* main, lines 126-128: start the handler thread, sleep, loop
StartHandler ==
    /\ mainAlive /\ mainpc = "start"
    /\ pc' = [pc EXCEPT ![nacc] = "recv"]
    /\ mainpc' = "accept"
    /\ UNCHANGED <<clients, nacc, mainAlive, closed, data, fsk_signal,
                   playback, invoked, started, regAtInt, reads, cvars,
                   kvars>>

\* SIGINT: signal_handler runs on the main thread and raises SystemExit there.
\* It closes nothing; the handler threads are not daemon threads and run on.
signal_handler ==
    /\ mainAlive
    /\ mainAlive' = FALSE
    /\ regAtInt' = { s \in Sockets : InList(clients, s) }
    /\ UNCHANGED <<clients, nacc, mainpc, pc, closed, data, fsk_signal,
                   playback, invoked, started, reads, cvars, kvars>>

\* receive, lines 75-87 (and 89-92, 94-98): one recv, decoded and dispatched
Recv(s, b) ==
    /\ pc[s] = "recv"
    /\ invoked' = [invoked EXCEPT ![s] = 0]
    /\ started' = [started EXCEPT ![s] = 0]
    /\ LET text == Decode(b)
       IN  IF text = DecodeError
           THEN /\ LeaveLoop(s)
                /\ UNCHANGED <<data, fsk_signal>>
           ELSE IF text = QuitText \/ text = <<>>
           THEN /\ data' = [data EXCEPT ![s] = text]
                /\ LeaveLoop(s)
                /\ UNCHANGED fsk_signal
           ELSE /\ data' = [data EXCEPT ![s] = text]
                /\ fsk_signal' = [fsk_signal EXCEPT ![s] = MessageSignal(text)]
                /\ pc' = [pc EXCEPT ![s] = "play"]
                /\ reads' = [reads EXCEPT ![s] = Bump(reads[s])]
                /\ UNCHANGED closed
    /\ UNCHANGED <<clients, nacc, mainpc, mainAlive, playback, regAtInt,
                   cvars, kvars>>

\* receive, lines 75 and 94-98: recv raises (connection reset, ...)
RecvFault(s) ==
    /\ pc[s] = "recv"
    /\ invoked' = [invoked EXCEPT ![s] = 0]
    /\ started' = [started EXCEPT ![s] = 0]
    /\ LeaveLoop(s)
    /\ UNCHANGED <<clients, nacc, mainpc, mainAlive, data, fsk_signal,
                   playback, regAtInt, cvars, kvars>>

\* play_audio, line 67: sd.play hands the buffer to the output device
PlayStart(s) ==
    /\ pc[s] = "play"
    /\ invoked' = [invoked EXCEPT ![s] = Bump(invoked[s])]
    /\ started' = [started EXCEPT ![s] = Bump(started[s])]
    /\ playback' = [playback EXCEPT ![s] = Append(playback[s], fsk_signal[s])]
    /\ pc' = [pc EXCEPT ![s] = "wait"]
    /\ UNCHANGED <<clients, nacc, mainpc, mainAlive, closed, data,
                   fsk_signal, regAtInt, reads, cvars, kvars>>

\* play_audio, line 67 and receive, lines 94-98: sd.play raises (no output device)
PlayFault(s) ==
    /\ pc[s] = "play"
    /\ invoked' = [invoked EXCEPT ![s] = Bump(invoked[s])]
    /\ LeaveLoop(s)
    /\ UNCHANGED <<clients, nacc, mainpc, mainAlive, data, fsk_signal,
                   playback, started, regAtInt, cvars, kvars>>

\* the output device reaches the end of a submitted buffer
DeviceFinish(s) ==
    /\ playback[s] # <<>>
    /\ playback' = [playback EXCEPT ![s] = Tail(playback[s])]
    /\ UNCHANGED <<clients, nacc, mainpc, mainAlive, pc, closed, data,
                   fsk_signal, invoked, started, regAtInt, reads, cvars,
                   kvars>>

\* play_audio, line 68, then receive, line 100: sd.wait returns, sleep, loop
PlayWait(s) ==
    /\ pc[s] = "wait"
    /\ WaitReturns(s)
    /\ pc' = [pc EXCEPT ![s] = "recv"]
    /\ UNCHANGED <<clients, nacc, mainpc, mainAlive, closed, data,
                   fsk_signal, playback, invoked, started, regAtInt, reads,
                   cvars, kvars>>

\* receive, line 103
CheckRegistered(s) ==
    /\ pc[s] = "check"
    /\ pc' = [pc EXCEPT ![s] = IF InList(clients, s) THEN "remove" ELSE "done"]
    /\ UNCHANGED <<clients, nacc, mainpc, mainAlive, closed, data,
                   fsk_signal, playback, invoked, started, regAtInt, reads,
                   cvars, kvars>>

\* receive, line 104 (remove of an absent socket would raise ValueError and
\* end the thread all the same)
Deregister(s) ==
    /\ pc[s] = "remove"
    /\ clients' = IF InList(clients, s) THEN ListRemove(clients, s) ELSE clients
    /\ pc' = [pc EXCEPT ![s] = "done"]
    /\ UNCHANGED <<nacc, mainpc, mainAlive, closed, data, fsk_signal,
                   playback, invoked, started, regAtInt, reads, cvars,
                   kvars>>

receive(s) ==
    \/ \E b \in RecvInputs : Recv(s, b)
    \/ RecvFault(s)
    \/ PlayStart(s)
    \/ PlayFault(s)
    \/ PlayWait(s)
    \/ CheckRegistered(s)
    \/ Deregister(s)

main == Accept \/ RegisterClient \/ StartHandler

ServerNext ==
    \/ main
    \/ signal_handler
    \/ \E s \in Sockets : receive(s)
    \/ \E s \in Sockets : DeviceFinish(s)

(***************************************************************************)
(* The capture pipelines.                                                  *)
(*   "receiver": receiver.py and audio_streaming_example.py, whose         *)
(*               audio_callback and stream_audio are the same code;        *)
(*   "sample":   sample.py.                                                *)
(* A block is identified by its number in the order the device made it.    *)
(***************************************************************************)
Pipelines == {"receiver", "sample"}

\* queue.Queue.full(): maxsize > 0 and qsize() >= maxsize
QueueFull(q, maxsize) == maxsize > 0 /\ Len(q) >= maxsize

put_drop_oldest(q, maxsize, x) ==
    IF QueueFull(q, maxsize)
    THEN [queue |-> Append(Tail(q), x), result |-> "full"]
    ELSE [queue |-> Append(q, x), result |-> "enqueued"]
\* queue.Queue.put_nowait(x) under audio_callback's try / except queue.Full
put_nowait(q, maxsize, x) ==
    IF QueueFull(q, maxsize)
    THEN [queue |-> q, result |-> "full"]
    ELSE [queue |-> Append(q, x), result |-> "enqueued"]

\* ---- bit-to-text assembly (sample.py) ----

RECURSIVE IntBase2Reversed(_)
IntBase2Reversed(s) ==
    IF s = <<>> THEN 0
    ELSE (IF Head(s) = "1" THEN 1 ELSE 0) + 2 * IntBase2Reversed(Tail(s))
RECURSIVE IntBase2(_)
\* int(byte_string, 2)
IntBase2(s) ==
    IF s = <<>> THEN 0
    ELSE 2 * IntBase2(SubSeq(s, 1, Len(s) - 1))
         + (IF s[Len(s)] = "1" THEN 1 ELSE 0)

\* lines 62-68 of sample.py: chr(int(byte_string, 2)), "?" on ValueError
ByteChar(byte_string) ==
    IF \A i \in 1..Len(byte_string) : byte_string[i] \in {"0", "1"}
    THEN IntBase2(byte_string) ELSE 63

RECURSIVE AssembleDiscarding(_, _)
AssembleDiscarding(bits, text) ==
    IF Len(bits) >= 8
    THEN AssembleDiscarding(SubSeq(bits, 9, Len(bits)),
                            Append(text, ByteChar(SubSeq(bits, 1, 8))))
    ELSE [bits |-> <<>>, text |-> text]
RECURSIVE Assemble(_, _)
\* lines 59-69 of sample.py: take characters off the front of the bit buffer
Assemble(bits, text) ==
    IF Len(bits) >= 8
    THEN Assemble(SubSeq(bits, 9, Len(bits)),
                  Append(text, ByteChar(SubSeq(bits, 1, 8))))
    ELSE [bits |-> bits, text |-> text]

\* sample.py lines 53-69: the bits of one block are appended to the bit buffer
\* and full bytes are taken off its front
FeedAssembler(chunk) ==
    LET r == Assemble(demodulated_bits \o chunk, ascii_string)
    IN  /\ demodulated_bits' = r.bits
        /\ ascii_string' = r.text
        /\ fed' = fed \o chunk
        /\ feeds' = feeds + 1

get_lifo(q) == [item |-> q[Len(q)], queue |-> SubSeq(q, 1, Len(q) - 1)]
\* queue.Queue.get on a queue that is not empty: the oldest item is removed
get(q) == [item |-> Head(q), queue |-> Tail(q)]

\* the bits a captured block demodulates to.  The signal in the room is the
\* same in every run: "Hi" (01001000 01101001) over and over, cut by the
\* block boundaries into 3, 5, 7 and 1 symbols.
BlockBits(id) ==
    <<<<"0", "1", "0">>, <<"0", "1", "0", "0", "0">>,
      <<"0", "1", "1", "0", "1", "0", "0">>, <<"1">>>>[((id - 1) % 4) + 1]

CaptureIdle(p) ==
    /\ pipeline = p
    /\ stream = "idle"
    /\ audio_queue = <<>>
    /\ delivered = 0
    /\ cpc = "start"
    /\ mpc = IF p = "sample" THEN "start_rx" ELSE "consumer"
    /\ audio_data = 0
    /\ sigint = FALSE
    /\ ev = "none"
    /\ demod_of = 0
    /\ assembled_of = 0
    /\ dropped = {}

\* ---- receiver.py / audio_streaming_example.py ----

\* stream_audio, lines 112-128: the queue exists, the stream is opened and started
StreamStart ==
    /\ pipeline = "receiver" /\ cpc = "start"
    /\ stream' = "active"
    /\ cpc' = "get"
    /\ UNCHANGED <<pipeline, audio_queue, delivered, mpc, audio_data, sigint,
                   ev, demod_of, assembled_of, dropped, svars, kvars>>

\* stream_audio, lines 115-126 and 147-148: sd.InputStream or stream.start
\* raises (no capture device); the outer handler prints and the function returns
StreamStartFault ==
    /\ pipeline = "receiver" /\ cpc = "start"
    /\ cpc' = "failed"
    /\ UNCHANGED <<pipeline, stream, audio_queue, delivered, mpc, audio_data,
                   sigint, ev, demod_of, assembled_of, dropped, svars, kvars>>

\* audio_callback, lines 89-91: the device reports a status; the block is discarded
CallbackStatus ==
    /\ pipeline = "receiver" /\ stream = "active"
    /\ ev' = "status"
    /\ UNCHANGED <<pipeline, stream, audio_queue, delivered, cpc, mpc,
                   audio_data, sigint, demod_of, assembled_of, dropped, svars,
                   kvars>>

\* audio_callback, lines 92-96: the block is offered to the queue without blocking
CallbackOffer ==
    /\ pipeline = "receiver" /\ stream = "active"
    /\ delivered < MaxBlocks
    /\ delivered' = delivered + 1
    /\ LET r == put_nowait(audio_queue, QueueMaxSize, delivered + 1)
       IN  /\ audio_queue' = r.queue
           /\ ev' = r.result
           /\ dropped' = IF r.result = "full" THEN dropped \cup {delivered + 1}
                          ELSE dropped
    /\ UNCHANGED <<pipeline, stream, cpc, mpc, audio_data, sigint, demod_of,
                   assembled_of, svars, kvars>>

audio_callback == CallbackStatus \/ CallbackOffer

\* stream_audio, line 132: audio_queue.get(timeout=1) returns a block
ConsumerGet ==
    /\ pipeline = "receiver" /\ cpc = "get"
    /\ audio_queue # <<>>
    /\ audio_data' = get(audio_queue).item
    /\ audio_queue' = get(audio_queue).queue
    /\ cpc' = "demod"
    /\ UNCHANGED <<pipeline, stream, delivered, mpc, sigint, ev, demod_of,
                   assembled_of, dropped, svars, kvars>>

ConsumerTimeoutBreak ==
    /\ pipeline = "receiver" /\ cpc = "get"
    /\ audio_queue = <<>>
    /\ cpc' = "returned"
    /\ UNCHANGED <<pipeline, stream, audio_queue, delivered, mpc, audio_data,
                   sigint, ev, demod_of, assembled_of, dropped, svars, kvars>>
\* stream_audio, lines 132 and 140-141: the wait times out, queue.Empty, pass
ConsumerTimeout ==
    /\ pipeline = "receiver" /\ cpc = "get"
    /\ audio_queue = <<>>
    /\ cpc' = "loop"
    /\ UNCHANGED <<pipeline, stream, audio_queue, delivered, mpc, audio_data,
                   sigint, ev, demod_of, assembled_of, dropped, svars, kvars>>

\* stream_audio, lines 135-138: demodulate the block and print the bits
ConsumerDemod ==
    /\ pipeline = "receiver" /\ cpc = "demod"
    /\ demod_of' = audio_data
    /\ cpc' = "loop"
    /\ UNCHANGED <<pipeline, stream, audio_queue, delivered, mpc, audio_data,
                   sigint, ev, assembled_of, dropped, svars, kvars>>

\* stream_audio, lines 135-138 and 147-148: fsk_demodulate or print raises
\* (MemoryError, BrokenPipeError on a closed stdout, ...).  The inner try
\* handles queue.Empty and KeyboardInterrupt only, so the exception leaves the
\* while loop and reaches the outer `except Exception`, which prints and lets
\* stream_audio return.  stream.stop() is not called on this path.
ConsumerDemodFault ==
    /\ pipeline = "receiver" /\ cpc = "demod"
    /\ cpc' = "failed"
    /\ UNCHANGED <<pipeline, stream, audio_queue, delivered, mpc, audio_data,
                   sigint, ev, demod_of, assembled_of, dropped, svars, kvars>>

\* __main__, lines 150-151: stream_audio has returned through the outer handler,
\* the script ends, and the interpreter's exit handlers terminate the audio
\* library, which ends the stream.  Until then the callback still runs.
InterpreterExit ==
    /\ pipeline = "receiver" /\ cpc = "failed" /\ stream = "active"
    /\ stream' = "closed"
    /\ UNCHANGED <<pipeline, audio_queue, delivered, cpc, mpc, audio_data,
                   sigint, ev, demod_of, assembled_of, dropped, svars, kvars>>

\* stream_audio, line 130: back to the top of the loop, into the try block
ConsumerLoop ==
    /\ pipeline = "receiver" /\ cpc = "loop"
    /\ cpc' = "get"
    /\ UNCHANGED <<pipeline, stream, audio_queue, delivered, mpc, audio_data,
                   sigint, ev, demod_of, assembled_of, dropped, svars, kvars>>

\* Ctrl-C: KeyboardInterrupt is raised in the main thread, which runs
\* stream_audio.  Inside the inner try (lines 131-138) it is caught by lines
\* 142-146: stream.stop(), stream.close(), break.  Anywhere else it passes the
\* outer `except Exception` (line 147) and ends the process, and the stream
\* with it.
StreamInterrupt ==
    /\ pipeline = "receiver" /\ ~sigint
    /\ cpc \in {"start", "get", "demod", "loop"}
    /\ sigint' = TRUE
    /\ cpc' = IF cpc \in {"get", "demod"} THEN "exited" ELSE "killed"
    /\ stream' = IF stream = "active" THEN "closed" ELSE stream
    /\ UNCHANGED <<pipeline, audio_queue, delivered, mpc, audio_data, ev,
                   demod_of, assembled_of, dropped, svars, kvars>>

stream_audio ==
    StreamStart \/ ConsumerGet \/ ConsumerTimeout \/ ConsumerDemod \/ ConsumerLoop

\* ---- sample.py ----

\* __main__, lines 109-115: the queue is created, the recording thread starts
SampleStartReceive ==
    /\ pipeline = "sample" /\ mpc = "start_rx"
    /\ stream' = "active"
    /\ mpc' = "start_demod"
    /\ UNCHANGED <<pipeline, audio_queue, delivered, cpc, audio_data, sigint,
                   ev, demod_of, assembled_of, dropped, svars, kvars>>

\* __main__, lines 118-128: the demodulating thread starts, main sleeps in its loop
SampleStartDemod ==
    /\ pipeline = "sample" /\ mpc = "start_demod"
    /\ cpc' = "get"
    /\ mpc' = "sleep"
    /\ UNCHANGED <<pipeline, stream, audio_queue, delivered, audio_data,
                   sigint, ev, demod_of, assembled_of, dropped, svars, kvars>>

\* receive_audio, lines 86-91: record a block, put it (the queue has no maxsize)
receive_audio ==
    /\ pipeline = "sample" /\ stream = "active"
    /\ delivered < MaxBlocks
    /\ delivered' = delivered + 1
    /\ audio_queue' = put_nowait(audio_queue, 0, delivered + 1).queue
    /\ ev' = "put"
    /\ UNCHANGED <<pipeline, stream, cpc, mpc, audio_data, sigint, demod_of,
                   assembled_of, dropped, svars, kvars>>

\* fsk_demodulate, line 41: get(timeout=1) returns a block
SampleGet ==
    /\ pipeline = "sample" /\ cpc = "get"
    /\ audio_queue # <<>>
    /\ audio_data' = get(audio_queue).item
    /\ audio_queue' = get(audio_queue).queue
    /\ cpc' = "demod"
    /\ UNCHANGED <<pipeline, stream, delivered, mpc, sigint, ev, demod_of,
                   assembled_of, dropped, svars, kvars>>

\* fsk_demodulate, lines 42-69: demodulate the block, assemble the characters
SampleDemod ==
    /\ pipeline = "sample" /\ cpc = "demod"
    /\ demod_of' = audio_data
    /\ FeedAssembler(BlockBits(audio_data))
    /\ assembled_of' = audio_data
    /\ cpc' = "get"
    /\ UNCHANGED <<pipeline, stream, audio_queue, delivered, mpc, audio_data,
                   sigint, ev, dropped, svars, stage, source, message,
                   binary_data, signal, threshold_factor, demod_by,
                   received_bits, tone_args, tone, bit_duration_arg, windows>>

SampleTimeoutFlushing ==
    /\ pipeline = "sample" /\ cpc = "get"
    /\ audio_queue = <<>>
    /\ cpc' = "sleep"
    /\ demodulated_bits' = <<>>
    /\ UNCHANGED <<pipeline, stream, audio_queue, delivered, mpc, audio_data,
                   sigint, ev, demod_of, assembled_of, dropped, svars, stage,
                   source, message, binary_data, signal, threshold_factor,
                   demod_by, received_bits, ascii_string, fed, feeds,
                   tone_args, tone, bit_duration_arg, windows>>
\* fsk_demodulate, lines 41 and 71-73: the wait times out, queue.Empty, sleep
SampleTimeout ==
    /\ pipeline = "sample" /\ cpc = "get"
    /\ audio_queue = <<>>
    /\ cpc' = "sleep"
    /\ UNCHANGED <<pipeline, stream, audio_queue, delivered, mpc, audio_data,
                   sigint, ev, demod_of, assembled_of, dropped, svars, kvars>>

\* fsk_demodulate, line 74: continue
SampleWake ==
    /\ pipeline = "sample" /\ cpc = "sleep"
    /\ cpc' = "get"
    /\ UNCHANGED <<pipeline, stream, audio_queue, delivered, mpc, audio_data,
                   sigint, ev, demod_of, assembled_of, dropped, svars, kvars>>

\* Ctrl-C: KeyboardInterrupt in the main thread.  In the sleep loop it is
\* caught (line 129), and line 131 calls demodulate_thread_obj.stop(): a
\* Thread has no stop(), AttributeError ends the main thread before
\* sys.exit.  Outside the try it ends the main thread directly.  Threads
\* already started are not daemon threads: they run on.
SampleInterrupt ==
    /\ pipeline = "sample" /\ ~sigint
    /\ mpc \in {"start_rx", "start_demod", "sleep"}
    /\ sigint' = TRUE
    /\ mpc' = "dead"
    /\ UNCHANGED <<pipeline, stream, audio_queue, delivered, cpc, audio_data,
                   ev, demod_of, assembled_of, dropped, svars, kvars>>

sample_main == SampleStartReceive \/ SampleStartDemod

sample_fsk_demodulate == SampleGet \/ SampleDemod \/ SampleTimeout \/ SampleWake

CaptureNext ==
    \/ audio_callback
    \/ stream_audio
    \/ StreamStartFault
    \/ ConsumerDemodFault
    \/ InterpreterExit
    \/ StreamInterrupt
    \/ sample_main
    \/ receive_audio
    \/ sample_fsk_demodulate
    \/ SampleInterrupt

(***************************************************************************)
(* The modem functions: demodulators, bit-to-text assembly, synthesizer.   *)
(* A sample buffer is a sequence of bursts; sample k of a burst of         *)
(* frequency f is sin(2 pi f k / sample_rate), kept in fixed point.        *)
(***************************************************************************)
Demodulators == {"receiver", "example", "sample"}

\* threshold_factor in hundredths: 0.3 (sample.py line 105), 0.5 (the default
\* of audio_streaming_example.py and sample.py), 0.55 (the default of
\* receiver.py), and 0.47
ThresholdFactors == {30, 47, 50, 55}

\* half a turn of phase, in phase steps: sample_rate / HalfTurn divides every
\* product frequency * k of the frequencies used here
HalfTurn == sample_rate \div 100

\* the phase of sample k of a tone, in steps of 1 / (2 HalfTurn) turn
Phase(frequency, k) ==
    ((frequency * k) \div (sample_rate \div (2 * HalfTurn))) % (2 * HalfTurn)

\* np.sin in fixed point (thousandths): 16 y (h - y) / (5 h^2 - 4 y (h - y))
\* on each half turn, within 0.0025 of the sine
Sine(p) ==
    LET y == p % HalfTurn
        v == (16000 * y * (HalfTurn - y))
                \div (5 * HalfTurn * HalfTurn - 4 * y * (HalfTurn - y))
    IN  IF p < HalfTurn THEN v ELSE 0 - v

SineTable == [p \in 0..(2 * HalfTurn - 1) |-> Sine(p)]

Abs(x) == IF x < 0 THEN 0 - x ELSE x

RECURSIVE BufLen(_)
\* len(received_signal)
BufLen(w) == IF w = <<>> THEN 0 ELSE Head(w).n + BufLen(Tail(w))

RECURSIVE BurstAt(_, _)
\* where sample i (counted from 0) of a buffer lies: the tone of its burst,
\* the burst's length, and the sample's place k in the burst
BurstAt(w, i) ==
    IF i < Head(w).n THEN [freq |-> Head(w).freq, n |-> Head(w).n, k |-> i]
    ELSE BurstAt(Tail(w), i - Head(w).n)

\* received_signal[i]
SampleAt(w, i) ==
    LET b == BurstAt(w, i) IN SineTable[Phase(b.freq, b.k)]

\* lines 56 and 57 of receiver.py: int(i * sample_rate * bit_duration), for
\* the bit_duration bd handed to the call
StartSample(i, bd) == (i * sample_rate * bd) \div BitDurationDen

\* the tone a window is multiplied with.  receiver.py lines 61-62 call
\* generate_sine_wave(freq) and so take the module's bit_duration (line 18),
\* whatever bit_duration the call was given; audio_streaming_example.py lines
\* 48-49 and sample.py lines 49-50 pass the call's own.
ReferenceTone(d, frequency, bd) ==
    IF d = "receiver" THEN generate_sine_wave(frequency, bit_duration)
    ELSE generate_sine_wave(frequency, bd)

RECURSIVE EnergySum(_, _, _, _, _)
\* the terms lo .. hi-1 of np.sum(np.abs(bit_signal * reference)), each term
\* in hundred-thousandths; the sum is split in halves
EnergySum(w, start, frequency, lo, hi) ==
    IF hi <= lo THEN 0
    ELSE IF hi = lo + 1
    THEN Abs(SampleAt(w, start + lo) * SineTable[Phase(frequency, lo)]) \div 100
    ELSE LET mid == (lo + hi) \div 2
         IN  EnergySum(w, start, frequency, lo, mid)
             + EnergySum(w, start, frequency, mid, hi)

\* the sums of lines 61-62 for a window that is one whole burst of a tone
\* (silence is the tone of frequency 0), worked out once
ToneEnergy ==
    [f \in {0, freq_low, freq_high}, g \in {freq_low, freq_high} |->
        EnergySum(<<generate_sine_wave(f, bit_duration)>>, 0, g, 0, SamplesPerBit)]

\* lines 61-62 of receiver.py for window i and one reference tone, the
\* window and the reference being of the same length
Energy(w, i, frequency, bd) ==
    LET start == StartSample(i, bd)
        len == StartSample(i + 1, bd) - start
        b == BurstAt(w, start)
    IN  IF /\ b.k = 0 /\ b.n = len /\ len = SamplesPerBit
           /\ b.freq \in {0, freq_low, freq_high}
           /\ frequency \in {freq_low, freq_high}
        THEN ToneEnergy[b.freq, frequency]
        ELSE EnergySum(w, start, frequency, 0, len)

\* energy > (energy_high + energy_low) * threshold_factor
Above(energy, energy_high, energy_low, tf) ==
    energy * 100 > (energy_high + energy_low) * tf

Below(energy, energy_high, energy_low, tf) ==
    energy * 100 < (energy_high + energy_low) * tf

ClassifySwapped(d, energy_high, energy_low, tf) ==
    IF Above(energy_high, energy_high, energy_low, tf) THEN <<"0">> ELSE <<"1">>
\* the decision of one window: receiver.py lines 67-70,
\* audio_streaming_example.py lines 54-57, sample.py lines 53-56
Classify(d, energy_high, energy_low, tf) ==
    IF d = "sample"
    THEN IF Above(energy_high, energy_high, energy_low, tf)
         THEN <<"1">> ELSE <<"0">>
    ELSE IF /\ Above(energy_high, energy_high, energy_low, tf)
            /\ Below(energy_low, energy_high, energy_low, tf)
         THEN <<"1">>
    ELSE IF /\ Above(energy_low, energy_high, energy_low, tf)
            /\ Below(energy_high, energy_high, energy_low, tf)
         THEN <<"0">>
    ELSE <<>>

NumBitsLessOne(w, bd) == (BufLen(w) * BitDurationDen) \div (sample_rate * bd) - 1
\* line 53 of receiver.py: int(len(received_signal) / (sample_rate * bit_duration))
NumBits(w, bd) == (BufLen(w) * BitDurationDen) \div (sample_rate * bd)

\* the slices `received_signal[start_sample:end_sample]` of the loop
Windows(w, bd) ==
    [i \in 1..NumBits(w, bd) |-> <<StartSample(i - 1, bd), StartSample(i, bd)>>]

\* bit_signal * generate_sine_wave(...) with one-dimensional arrays of
\* different lengths (neither of length 1): numpy raises ValueError
BroadcastError == <<"ValueError">>

RECURSIVE DemodulateFrom(_, _, _, _, _, _)
\* the loop `for i in range(num_bits)` from window i on
DemodulateFrom(d, w, tf, bd, i, num_bits) ==
    IF i >= num_bits THEN <<>>
    ELSE Classify(d, Energy(w, i, freq_high, bd), Energy(w, i, freq_low, bd), tf)
         \o DemodulateFrom(d, w, tf, bd, i + 1, num_bits)

\* fsk_demodulate of receiver.py and audio_streaming_example.py, and lines
\* 43-56 of sample.py: the bits appended for one buffer
fsk_demodulate(d, w, tf, bd) ==
    IF /\ NumBits(w, bd) >= 1
       /\ ReferenceTone(d, freq_high, bd).n # StartSample(1, bd) - StartSample(0, bd)
    THEN BroadcastError
    ELSE DemodulateFrom(d, w, tf, bd, 0, NumBits(w, bd))

\* ---- inputs ----
MaxBits == 3        \* longest bit sequence handed to the modulator
MaxFeeds == 4       \* blocks fed to the assembler

BitStrings == UNION { [1..k -> {"0", "1"}] : k \in 0..MaxBits }

\* "Hi", "A", "Quit"
Messages == { <<72, 105>>, <<65>>, <<81, 117, 105, 116>> }

\* a window of silence
Silence == generate_sine_wave(0, bit_duration)

\* captured blocks: silence; silence between two tones; two tones and half a
\* tone more; four tones
CapturedBuffers ==
    { <<Silence>>,
      <<generate_sine_wave(freq_high, bit_duration), Silence,
        generate_sine_wave(freq_low, bit_duration)>>,
      <<generate_sine_wave(freq_high, bit_duration),
        generate_sine_wave(freq_low, bit_duration),
        generate_sine_wave(freq_high, bit_duration \div 2)>>,
      <<generate_sine_wave(freq_high, bit_duration),
        generate_sine_wave(freq_high, bit_duration),
        generate_sine_wave(freq_low, bit_duration),
        generate_sine_wave(freq_low, bit_duration)>> }

\* the bit_duration handed to the demodulator: the module's, or twice that
BitDurations == {bit_duration, 2 * bit_duration}

\* the decisions of successive blocks: "Hi" is 01001000 01101001
Chunks ==
    { <<>>,
      <<"0", "1", "0">>,
      <<"0", "1", "0", "0", "0">>,
      <<"0", "1", "1", "0", "1", "0", "0">>,
      <<"1">>,
      <<"0", "1", "0", "0", "1", "0", "0", "0",
        "0", "1", "1", "0", "1", "0", "0", "1", "0", "1">> }

SynthFrequencies == {0 - freq_low, 0, freq_low, freq_high}
SynthDurations == {0 - bit_duration, 0, bit_duration, 17}

CodecIdle ==
    /\ stage = "off"
    /\ source = "none"
    /\ message = NoData
    /\ binary_data = <<>>
    /\ signal = <<>>
    /\ threshold_factor = 50
    /\ demod_by = "none"
    /\ received_bits = <<>>
    /\ demodulated_bits = <<>>
    /\ ascii_string = <<>>
    /\ fed = <<>>
    /\ feeds = 0
    /\ tone_args = <<0, 0>>
    /\ tone = generate_sine_wave(0, 0)
    /\ bit_duration_arg = bit_duration
    /\ windows = <<>>

CodecInit ==
    /\ source \in {"text", "bits", "air", "chunks", "synth"}
    /\ stage = source
    /\ message \in (IF source = "text" THEN Messages ELSE {NoData})
    /\ binary_data \in (IF source = "bits" THEN BitStrings ELSE {<<>>})
    /\ signal \in (IF source = "air" THEN CapturedBuffers ELSE {<<>>})
    /\ threshold_factor \in
         (IF source \in {"text", "bits", "air"} THEN ThresholdFactors ELSE {50})
    /\ demod_by = "none"
    /\ received_bits = <<>>
    /\ demodulated_bits = <<>>
    /\ ascii_string = <<>>
    /\ fed = <<>>
    /\ feeds = 0
    /\ tone_args = <<0, 0>>
    /\ tone = generate_sine_wave(0, 0)
    /\ bit_duration_arg \in
         (IF source = "air" THEN BitDurations ELSE {bit_duration})
    /\ windows = <<>>

\* transmitter.py, receive, line 85
EncodeMessage ==
    /\ stage = "text"
    /\ binary_data' = Bin(IntFromBytes(Encode(message)))
    /\ stage' = "bits"
    /\ UNCHANGED <<source, message, signal, threshold_factor, demod_by,
                   received_bits, demodulated_bits, ascii_string, fed, feeds,
                   tone_args, tone, bit_duration_arg, windows, svars, cvars>>

\* transmitter.py, receive, line 86
Modulate ==
    /\ stage = "bits"
    /\ signal' = generate_fsk_signal(binary_data)
    /\ stage' = "air"
    /\ UNCHANGED <<source, message, binary_data, threshold_factor, demod_by,
                   received_bits, demodulated_bits, ascii_string, fed, feeds,
                   tone_args, tone, bit_duration_arg, windows, svars, cvars>>

\* one of the three demodulators is applied to the buffer
Demodulate(d) ==
    /\ stage = "air"
    /\ received_bits' =
         fsk_demodulate(d, signal, threshold_factor, bit_duration_arg)
    /\ windows' =
         IF fsk_demodulate(d, signal, threshold_factor, bit_duration_arg)
              = BroadcastError
         THEN SubSeq(Windows(signal, bit_duration_arg), 1, 1)
         ELSE Windows(signal, bit_duration_arg)
    /\ demod_by' = d
    /\ stage' = "demodulated"
    /\ UNCHANGED <<source, message, binary_data, signal, threshold_factor,
                   demodulated_bits, ascii_string, fed, feeds, tone_args,
                   tone, bit_duration_arg, svars, cvars>>

\* the recovered bits of the buffer are assembled into text
FeedReceived ==
    /\ stage = "demodulated" /\ received_bits # BroadcastError
    /\ FeedAssembler(received_bits)
    /\ stage' = "assembled"
    /\ UNCHANGED <<source, message, binary_data, signal, threshold_factor,
                   demod_by, received_bits, tone_args, tone, bit_duration_arg,
                   windows, svars, cvars>>

\* the assembler is fed the decisions of one more block
Feed(chunk) ==
    /\ stage = "chunks" /\ feeds < MaxFeeds
    /\ FeedAssembler(chunk)
    /\ UNCHANGED <<stage, source, message, binary_data, signal,
                   threshold_factor, demod_by, received_bits, tone_args,
                   tone, bit_duration_arg, windows, svars, cvars>>

\* one call of the tone synthesizer
Synthesize(frequency, duration) ==
    /\ stage = "synth"
    /\ tone_args' = <<frequency, duration>>
    /\ tone' = generate_sine_wave(frequency, duration)
    /\ stage' = "tone"
    /\ UNCHANGED <<source, message, binary_data, signal, threshold_factor,
                   demod_by, received_bits, demodulated_bits, ascii_string,
                   fed, feeds, bit_duration_arg, windows, svars, cvars>>

CodecNext ==
    \/ EncodeMessage
    \/ Modulate
    \/ \E d \in Demodulators : Demodulate(d)
    \/ FeedReceived
    \/ \E chunk \in Chunks : Feed(chunk)
    \/ \E frequency \in SynthFrequencies, duration \in SynthDurations :
           Synthesize(frequency, duration)

(***************************************************************************)
(* Specifications.                                                         *)
(***************************************************************************)
\* The gateway alone: the capture side stays idle.
ServerSpecInit == ServerInit /\ CaptureIdle("receiver") /\ CodecIdle

ServerSpec == ServerSpecInit /\ [][ServerNext]_vars

\* The handler threads, the main thread and the output device take their
\* steps; what clients send, new connections and signals are up to the
\* environment.
ServerFairSpec ==
    /\ ServerSpec
    /\ WF_vars(RegisterClient \/ StartHandler)
    /\ \A s \in Sockets :
        /\ WF_vars(PlayStart(s) \/ PlayWait(s) \/ CheckRegistered(s)
                   \/ Deregister(s))
        /\ WF_vars(DeviceFinish(s))

\* A capture pipeline alone: the gateway stays in its initial state.
CaptureSpecInit ==
    ServerInit /\ CodecIdle /\ \E p \in Pipelines : CaptureIdle(p)

CaptureSpec == CaptureSpecInit /\ [][CaptureNext]_vars

\* The consumer and the main thread take their steps; the device's blocks
\* and signals are up to the environment.
CaptureFairSpec ==
    /\ CaptureSpec
    /\ WF_vars(stream_audio)
    /\ WF_vars(InterpreterExit)
    /\ WF_vars(sample_main)
    /\ WF_vars(sample_fsk_demodulate)

\* The modem functions alone, each applied to inputs drawn at the start.
CodecSpecInit == ServerInit /\ CaptureIdle("receiver") /\ CodecInit

CodecSpec == CodecSpecInit /\ [][CodecNext]_vars

(***************************************************************************)
(* Properties of the playback gateway (checked under ServerSpec unless     *)
(* said otherwise).                                                        *)
(***************************************************************************)
Hi == <<72, 105>>

\* a read that is neither empty nor exactly "quit"
Playable(t) == t # NoData /\ t # QuitText /\ t # <<>>

\* the handler is inside play_audio: sd.play has started, sd.wait has not returned
InPlayAudio(s) == pc[s] = "wait"

\* the accept loop has appended s to `clients`
Registered(s) == s < nacc \/ (s = nacc /\ mainpc # "append")

\* the handler of s left its loop through `except Exception`
Faulted(s) ==
    pc[s] \in {"check", "remove", "done"} /\ data[s] # QuitText /\ data[s] # <<>>

\* C1: playback is serialized across clients: at any time at most one
\* handler is inside play_audio, so playback invocations never overlap.
C1_PlaybackSerialized == Cardinality({ s \in Sockets : InPlayAudio(s) }) <= 1

\* C2: the registry is exact under every interleaving of the accept loop's
\* appends and the handlers' check-then-remove steps: `clients` holds each
\* appended socket whose handler has not finished exactly once, and nothing
\* else (no lost removal, no stale entry, no duplicate).
C2_RegistryExact ==
    /\ \A s \in Sockets :
        Occurrences(clients, s) = IF Registered(s) /\ pc[s] # "done" THEN 1 ELSE 0
    /\ \A i \in 1..Len(clients) : clients[i] \in Sockets

\* C2 witness: a handler passed its membership check, the accept loop then
\* appended another socket, and the handler's removal took out its own entry.
C2_Witness ==
    \E s, t \in Sockets :
        /\ s # t
        /\ pc[s] = "done" /\ Registered(s)
        /\ pc[t] \in {"recv", "play", "wait"}
        /\ clients = <<t>>

\* C3: when a handler has ended (by "quit", by an empty read or by an
\* exception) its socket is closed and not in the registry, and no playback
\* was started for the read that ended it.
C3_HandlerEnd ==
    \A s \in Sockets :
        pc[s] = "done" => closed[s] /\ ~InList(clients, s) /\ started[s] = 0

\* C3 witness: one handler ended by "quit" after a played message, another by
\* an exception.
C3_Witness ==
    \E s, t \in Sockets :
        /\ s # t
        /\ pc[s] = "done" /\ data[s] = QuitText
        /\ pc[t] = "done" /\ Faulted(t)

C5_PlaybackInReadOrder ==
    [][\A s \in Sockets :
        Len(playback'[s]) > Len(playback[s]) =>
            /\ playback[s] = <<>>
            /\ invoked[s] = 0
            /\ playback'[s] = <<MessageSignal(data[s])>>]_vars

\* C5 witness: the second message of a connection is being played.
C5_Witness ==
    \E s \in Sockets :
        reads[s] = 2 /\ pc[s] = "wait" /\ playback[s] = <<MessageSignal(data[s])>>

\* C6: an exception in one handler closes and deregisters that connection
\* only: no step of the faulted handler changes another connection's socket,
\* registry membership or handler progress, or the accept loop.
C6_FaultIsolated ==
    [][\A s \in Sockets :
        (Faulted(s)' /\ pc'[s] # pc[s]) =>
            /\ \A t \in Sockets \ {s} :
                /\ closed'[t] = closed[t]
                /\ InList(clients', t) = InList(clients, t)
                /\ pc'[t] = pc[t]
                /\ data'[t] = data[t]
                /\ playback'[t] = playback[t]
            /\ mainpc' = mainpc /\ nacc' = nacc /\ mainAlive' = mainAlive]_vars

\* C6 witness: a faulted handler has ended, closed and deregistered, while
\* another connection is still open, registered and served.
C6_Witness ==
    \E s, t \in Sockets :
        /\ s # t
        /\ Faulted(s) /\ pc[s] = "done" /\ closed[s] /\ ~InList(clients, s)
        /\ pc[t] \in {"recv", "play", "wait"} /\ ~closed[t] /\ InList(clients, t)

\* C7: after SIGINT, eventually the accept loop has stopped and every socket
\* that was in the registry at that moment is closed (under ServerFairSpec).
C7_InterruptClosesSockets ==
    (~mainAlive) ~> (~mainAlive /\ \A s \in regAtInt : closed[s])

(***************************************************************************)
(* Properties of the capture pipelines (checked under CaptureSpec unless   *)
(* said otherwise).                                                        *)
(***************************************************************************)
\* the consumer loop is no longer running
ConsumerGone == cpc \in {"exited", "killed", "failed"}

\* the pipeline is Streaming: the device captures and the consumer loop runs
Streaming == stream = "active" /\ cpc \in {"get", "demod", "loop", "sleep"}

\* C8: when the capture callback offers a block to a full queue, the block is
\* dropped, the queue is unchanged, and the callback returns normally: it is
\* never blocked, it raises nothing, and stream and consumer are untouched.
C8_FullQueueDropsNewest ==
    /\ [](( /\ pipeline = "receiver" /\ stream = "active"
            /\ delivered < MaxBlocks
            /\ QueueFull(audio_queue, QueueMaxSize)) => ENABLED CallbackOffer)
    /\ [][( /\ pipeline = "receiver"
            /\ delivered' = delivered + 1
            /\ QueueFull(audio_queue, QueueMaxSize)) =>
              /\ audio_queue' = audio_queue
              /\ ev' = "full"
              /\ stream' = stream /\ cpc' = cpc /\ audio_data' = audio_data]_vars

\* C8 witness: the callback has just dropped a block, the queue holds
\* QueueMaxSize blocks, none of them the dropped one.
C8_Witness ==
    /\ pipeline = "receiver" /\ ev = "full"
    /\ Len(audio_queue) = QueueMaxSize
    /\ \A i \in 1..Len(audio_queue) : audio_queue[i] # delivered

\* C9: in every capture pipeline the capture queue never holds more than the
\* configured capacity of 100 blocks.
C9_QueueBounded == Len(audio_queue) <= QueueMaxSize

\* C10: after an interrupt during streaming the pipeline eventually reaches
\* Stopped: the capture stream is stopped and the consumer loop has exited
\* (under CaptureFairSpec).
C10_InterruptStops ==
    (sigint /\ Streaming) ~> (stream = "closed" /\ ConsumerGone)

\* the consumer loop was ended by an exception raised while it processed a
\* dequeued block
BlockErrorEndedLoop == cpc = "failed" /\ audio_data # 0

\* C11: an error raised while processing one dequeued block is isolated to
\* that block: it never terminates the consumer loop, which goes on to dequeue
\* and demodulate later blocks.
C11_BlockErrorIsolated == pipeline = "receiver" => ~BlockErrorEndedLoop

\* C20: the pipeline follows Idle -> Streaming -> Stopped: whenever the
\* consumer loop is gone, by stop or by an error, the capture stream is not
\* running any more, so that no block is enqueued behind the consumer's back.
C20_StoppedWhenConsumerGone ==
    (pipeline = "receiver" /\ ConsumerGone) => stream # "active"

(***************************************************************************)
(* Properties of the modem functions (checked under CodecSpec).            *)
(***************************************************************************)
\* a buffer handed to a demodulator has been produced
Modulated == stage \in {"air", "demodulated", "assembled"}

\* a demodulator has been applied
Demodulated == stage \in {"demodulated", "assembled"}

\* the burst of one tone
HighTone == generate_sine_wave(freq_high, bit_duration)
LowTone == generate_sine_wave(freq_low, bit_duration)

\* detection is unambiguous with threshold factor tf: on a clean window of
\* either tone, the energy on that tone is above the threshold and the energy
\* on the other tone is below it
Unambiguous(tf) ==
    LET hh == Energy(<<HighTone>>, 0, freq_high, bit_duration)
        hl == Energy(<<HighTone>>, 0, freq_low, bit_duration)
        lh == Energy(<<LowTone>>, 0, freq_high, bit_duration)
        ll == Energy(<<LowTone>>, 0, freq_low, bit_duration)
    IN  /\ Above(hh, hh, hl, tf) /\ Below(hl, hh, hl, tf)
        /\ Above(ll, lh, ll, tf) /\ Below(lh, lh, ll, tf)

UnambiguousFactors == { tf \in ThresholdFactors : Unambiguous(tf) }

\* C12: round trip: for every bit sequence of length >= 1 and every
\* threshold factor that makes detection unambiguous, demodulating the
\* modulator's output gives back exactly the input bits, in order.
C12_RoundTrip ==
    ( /\ source = "bits" /\ Demodulated
      /\ Len(binary_data) >= 1
      /\ threshold_factor \in UnambiguousFactors ) =>
        received_bits = binary_data

\* C12 witness: receiver.py's demodulator, threshold factor 0.5, has given
\* back 1, 0, 1 from the three bursts modulated for it.
C12_Witness ==
    /\ source = "bits" /\ stage = "demodulated" /\ demod_by = "receiver"
    /\ threshold_factor = 50 /\ 50 \in UnambiguousFactors
    /\ binary_data = <<"1", "0", "1">>
    /\ Len(signal) = 3
    /\ received_bits = <<"1", "0", "1">>

\* the 8 bits of a byte, most significant first
ByteBits(b) ==
    [j \in 1..8 |-> IF (b \div (2 ^ (8 - j))) % 2 = 1 THEN "1" ELSE "0"]

RECURSIVE MsbFirstBits(_)
\* the bits of a byte string: each byte most significant bit first, in order
MsbFirstBits(bytes) ==
    IF bytes = <<>> THEN <<>>
    ELSE ByteBits(Head(bytes)) \o MsbFirstBits(Tail(bytes))

\* the number of zero bits a bit sequence starts with
LeadingZeros(bits) ==
    Cardinality({ i \in 1..Len(bits) : \A j \in 1..i : bits[j] = "0" })

\* C13: the symbols modulated for a text message are the message's bytes,
\* each most significant bit first, in message order, less at most the
\* leading zero bits of the whole message: so there are never more than
\* 8 symbols per byte, and every symbol is a bit of the message.
C13_SymbolsAreMessageBits ==
    (source = "text" /\ Modulated) =>
        LET bits == MsbFirstBits(Encode(message))
        IN  /\ Len(signal) <= 8 * Len(Encode(message))
            /\ \E z \in 0..LeadingZeros(bits) :
                 signal = generate_fsk_signal(SubSeq(bits, z + 1, Len(bits)))

\* C14: byte round trip: a non-empty ASCII message that is encoded,
\* modulated, demodulated without ambiguity and assembled 8 bits at a time
\* comes out as the same text.
C14_ByteRoundTrip ==
    ( /\ source = "text" /\ stage = "assembled"
      /\ threshold_factor \in UnambiguousFactors ) =>
        ascii_string = message

\* C15: the modulator's output is one burst of exactly samples_per_bit samples
\* per input bit, in order, without gaps: freq_high for 1, freq_low for 0;
\* its length is len(bits) * samples_per_bit, 0 for the empty input.
C15_ModulatorOutput ==
    (source = "bits" /\ Modulated) =>
        /\ Len(signal) = Len(binary_data)
        /\ \A i \in 1..Len(signal) :
             /\ signal[i].n = SamplesPerBit
             /\ signal[i].freq =
                  IF binary_data[i] = "1" THEN freq_high ELSE freq_low
        /\ BufLen(signal) = Len(binary_data) * SamplesPerBit

\* C15 witness: 1, 0, 0 has been modulated into 3 * 441 samples.
C15_Witness ==
    /\ source = "bits" /\ stage = "air"
    /\ binary_data = <<"1", "0", "0">>
    /\ BufLen(signal) = 3 * SamplesPerBit
    /\ signal[1].freq = freq_high /\ signal[2].freq = freq_low

\* the windows of a buffer that are silent: equal (zero) energy on both tones
SilentWindows(w) == { i \in 1..Len(w) : w[i] = Silence }

\* C16: a window with equal energy on both reference tones (an all-zero
\* window for one) yields no bit, for every threshold factor, in every
\* demodulator: the bits emitted for a captured buffer are at most one per
\* window that is not silent.
C16_EqualEnergySilent ==
    (source = "air" /\ Demodulated /\ bit_duration_arg = bit_duration) =>
        Len(received_bits) <= Len(signal) - Cardinality(SilentWindows(signal))

\* a is a prefix of b
IsPrefix(a, b) == Len(a) <= Len(b) /\ a = SubSeq(b, 1, Len(a))

\* the last n elements of a sequence
Last(s, n) == SubSeq(s, Len(s) - n + 1, Len(s))

\* C17: after every feed the bit buffer holds 0 to 7 bits: the last
\* (previous residual + bits fed) mod 8 bits of the stream.  A trailing
\* partial group stays buffered across blocks, makes no character and no
\* placeholder, and is completed by the first bits of the next feed.
C17_ResidualKept ==
    /\ [](/\ Len(demodulated_bits) <= 7
          /\ demodulated_bits = Last(fed, Len(fed) % 8)
          /\ Len(ascii_string) = Len(fed) \div 8)
    /\ [][Len(demodulated_bits')
            = (Len(demodulated_bits) + Len(fed') - Len(fed)) % 8]_vars

\* C17 witness: 010 was buffered, 01000 completed it to "H", and the 7 bits
\* fed next are buffered.
C17_Witness ==
    /\ source = "chunks" /\ feeds = 3
    /\ fed = <<"0", "1", "0">> \o <<"0", "1", "0", "0", "0">>
             \o <<"0", "1", "1", "0", "1", "0", "0">>
    /\ ascii_string = <<72>>
    /\ demodulated_bits = <<"0", "1", "1", "0", "1", "0", "0">>

\* the value of the i-th group of 8 bits of a stream, most significant first
GroupValue(bits, i) ==
    LET b(j) == IF bits[8 * (i - 1) + j] = "1" THEN 1 ELSE 0
    IN  128 * b(1) + 64 * b(2) + 32 * b(3) + 16 * b(4)
        + 8 * b(5) + 4 * b(6) + 2 * b(7) + b(8)

\* the characters of the complete 8-bit groups of a stream
GroupText(bits) == [i \in 1..(Len(bits) \div 8) |-> GroupValue(bits, i)]

\* C18: the accumulated text is the characters of the successive 8-bit groups
\* (most significant bit first) of all bits fed so far, however they were
\* split into chunks; the text only grows by appending.
C18_TextIsGroupsOfStream ==
    /\ [](ascii_string = GroupText(fed))
    /\ [][IsPrefix(ascii_string, ascii_string')]_vars

\* C18 witness: "Hi" assembled from four chunks of 3, 5, 7 and 1 bits.
C18_Witness ==
    /\ source = "chunks" /\ feeds = 4
    /\ Len(fed) = 16 /\ demodulated_bits = <<>>
    /\ ascii_string = Hi

\* C19: for a degenerate input (duration <= 0 or frequency <= 0) the tone
\* synthesizer returns an empty buffer or rejects the call.
C19_DegenerateInputs ==
    (stage = "tone" /\ (tone_args[1] <= 0 \/ tone_args[2] <= 0)) =>
        (tone = ValueError \/ tone.n = 0)

(***************************************************************************)
(* Claims about the windows of the demodulator.                            *)
(***************************************************************************)

\* the decision the rule prescribes for one window: 1 when the high energy
\* is above the threshold and the low energy below it, 0 when the low energy
\* is above and the high below, nothing otherwise
RuleDecision(energy_high, energy_low, tf) ==
    IF /\ Above(energy_high, energy_high, energy_low, tf)
       /\ Below(energy_low, energy_high, energy_low, tf)
    THEN <<"1">>
    ELSE IF /\ Above(energy_low, energy_high, energy_low, tf)
            /\ Below(energy_high, energy_high, energy_low, tf)
         THEN <<"0">>
    ELSE <<>>

RECURSIVE RuleBits(_, _, _, _)
\* the rule's decisions of windows i, i + 1, ... of a buffer, in order
RuleBits(w, tf, bd, i) ==
    IF i >= NumBits(w, bd) THEN <<>>
    ELSE RuleDecision(Energy(w, i, freq_high, bd), Energy(w, i, freq_low, bd), tf)
         \o RuleBits(w, tf, bd, i + 1)

\* C21: in every demodulator a window yields bit 1 only when E_high > T and
\* E_low < T, bit 0 only when E_low > T and E_high < T, and nothing otherwise;
\* the bits of a buffer are the rule's decisions of its windows in order.
C21_DecisionRule ==
    (Demodulated /\ received_bits # BroadcastError) =>
        received_bits = RuleBits(signal, threshold_factor, bit_duration_arg, 0)

\* window i of the buffer is exactly one clean burst of one of the two tones
WholeBurst(w, window) ==
    LET b == BurstAt(w, window[1])
    IN  /\ b.k = 0 /\ b.n = window[2] - window[1]
        /\ b.freq \in {freq_low, freq_high}

C23_ReferenceLength ==
    (Demodulated /\ Len(windows) >= 1) =>
        /\ \A frequency \in {freq_high, freq_low} :
              ReferenceTone(demod_by, frequency, bit_duration_arg).n
                  = windows[1][2] - windows[1][1]
        /\ received_bits # BroadcastError

(***************************************************************************)
(* Claims about the length of a symbol.                                    *)
(***************************************************************************)

\* sample_rate * duration rounded to the nearest integer, duration >= 0
RoundedSamples(duration) ==
    (2 * sample_rate * duration + BitDurationDen) \div (2 * BitDurationDen)

\* n is sample_rate * duration with its fraction cut off, duration >= 0
IsFloorSamples(n, duration) ==
    /\ n * BitDurationDen <= sample_rate * duration
    /\ sample_rate * duration < (n + 1) * BitDurationDen

\* C24 as stated: each synthesized symbol occupies exactly
\* round(sample_rate * bit_duration) samples, also when the product is not
\* an integer.
C24_SymbolSamplesRounded ==
    (stage = "tone" /\ tone_args[2] >= 0) =>
        tone.n = RoundedSamples(tone_args[2])

\* C24 amended: each synthesized symbol occupies exactly
\* floor(sample_rate * bit_duration) samples, also when the product is not an
\* integer, and so does every burst of a modulated signal.
C24_SymbolSamplesFloor ==
    /\ (stage = "tone" /\ tone_args[2] >= 0) =>
           IsFloorSamples(tone.n, tone_args[2])
    /\ (source \in {"text", "bits"} /\ Modulated) =>
           \A i \in 1..Len(signal) : IsFloorSamples(signal[i].n, bit_duration)

\* C24 witness: a symbol of 0.017 s was synthesized: 44100 * 0.017 = 749.7,
\* and the buffer has 749 samples.
C24_Witness ==
    /\ stage = "tone" /\ tone_args = <<freq_high, 17>>
    /\ tone.n = 749
    /\ RoundedSamples(17) = 750

(***************************************************************************)
(* Claims about the consumer of the capture queue.                         *)
(***************************************************************************)

\* C25: in every capture pipeline the consumer runs the demodulator on each
\* dequeued block and then feeds the resulting bits to the assembler, once
\* per block and in dequeue order: the block last demodulated is the block
\* last assembled.
C25_DemodThenAssemble ==
    /\ demod_of = assembled_of
    /\ (cpc \in {"loop", "get", "sleep"} /\ audio_data # 0)
           => assembled_of = audio_data

\* the consumer's wait on the queue timed out in this step
TimeoutStep == cpc = "get" /\ cpc' \in {"loop", "sleep"}

\* C26: a dequeue timeout is an idle tick: the queue, the residual bits, the
\* text and the stream are as before, no bits were produced, and the
\* consumer's next step is the next attempt to dequeue.
C26_TimeoutIsIdleTick ==
    /\ [][TimeoutStep =>
            /\ audio_queue = <<>>
            /\ UNCHANGED <<audio_queue, stream, delivered, audio_data,
                           demodulated_bits, ascii_string, fed, feeds,
                           demod_of, assembled_of, dropped, ev>>]_vars
    /\ [][(cpc \in {"loop", "sleep"} /\ cpc' # cpc /\ sigint' = sigint)
            => cpc' = "get"]_vars

\* C26 witness: sample.py's consumer sleeps after a timeout with 3 bits
\* left over and text assembled.
C26_Witness ==
    /\ pipeline = "sample" /\ cpc = "sleep"
    /\ audio_queue = <<>> /\ stream = "active"
    /\ Len(demodulated_bits) = 3 /\ Len(ascii_string) = 2

\* C27: when the callback is invoked with a status the capture stream is
\* torn down: the stream is no longer active after it.
C27_FaultTearsDown ==
    ev = "status" => stream # "active"

\* the blocks waiting in the queue
Queued == { audio_queue[i] : i \in 1..Len(audio_queue) }

\* C28: the queue is FIFO and lossless for accepted blocks: blocks wait in
\* the order they were enqueued, none twice, none that was dequeued before;
\* every block delivered was refused, waits, or was dequeued; each dequeue
\* takes the oldest waiting block, the next accepted one after the previous;
\* a refused block is never in the queue nor handed to the demodulator.
C28_FifoLossless ==
    /\ [] /\ \A i \in 1..(Len(audio_queue) - 1) :
                audio_queue[i] < audio_queue[i + 1]
          /\ \A id \in Queued : audio_data < id /\ id <= delivered
          /\ \A id \in 1..delivered :
                id \in dropped \/ id \in Queued \/ id <= audio_data
          /\ dropped \cap (Queued \cup {audio_data, demod_of}) = {}
          /\ demod_of <= audio_data
    /\ [][audio_data' # audio_data =>
            /\ audio_queue # <<>>
            /\ audio_data' = Head(audio_queue)
            /\ audio_queue' = Tail(audio_queue)
            /\ \A id \in (audio_data + 1)..(audio_data' - 1) : id \in dropped
         ]_vars
    /\ [][demod_of' # demod_of =>
            demod_of' = audio_data /\ demod_of' > demod_of]_vars

\* C28 witness: block 101 was refused by the full queue, block 102 was
\* accepted, and block 102 has been demodulated after block 100.
C28_Witness ==
    /\ dropped = {QueueMaxSize + 1}
    /\ demod_of = QueueMaxSize + 2
    /\ audio_queue = <<>>

\* the blocks whose way through the queue is followed: the first, the last
\* the bounded queue accepts without a dequeue, and the last delivered
TrackedBlocks == {1, QueueMaxSize, MaxBlocks}

\* C29: when the consumer is scheduled fairly, every block the producer
\* enqueued is eventually dequeued and demodulated, unless the pipeline was
\* stopped (Ctrl-C) or the consumer ended on an error.
C29_EnqueuedEventuallyDemodulated ==
    \A id \in TrackedBlocks :
        (id \in Queued) ~> (demod_of = id \/ ConsumerGone \/ sigint)

\* C29 witness: the last block delivered has gone through the queue and the
\* demodulator, and the consumer is still running.
C29_Witness ==
    /\ demod_of = MaxBlocks /\ ~ConsumerGone /\ ~sigint
    /\ dropped = {} /\ pipeline = "receiver"

====
